---- MODULE Spec2Model ----
(***************************************************************************)
(* A model of dependency_injection.py: get_signature (the signature        *)
(* extractor) and resolve_dependencies (the dependency resolver).          *)
(*                                                                         *)
(* Python objects are records.  A callable object carries its type, its    *)
(* own __code__/__defaults__ (when it has them) and its __init__, __new__  *)
(* and __call__ attributes.  Parameter values are strings; "None" is       *)
(* Python's None.  A dict is a function whose domain is its key set.       *)
(***************************************************************************)
EXTENDS Naturals, Integers, Sequences, FiniteSets, TLC

\* ------------------------------------------------------------------ bounds

\* The longest declared parameter list.
MaxParams == 2

\* The number of callers running get_signature / resolve_dependencies at once.
NThreads == 2

\* ------------------------------------------------------------------ values

\* Parameter names and dependency names.
Names == {"foo", "bar", "baz"}

\* The values a default or an available dependency can have.
Values == {"None", "1"}

Min(a, b) == IF a < b THEN a ELSE b

Max(a, b) == IF a > b THEN a ELSE b

\* Python's slice index: a negative index counts from the end, and both
\* ends are clamped to the sequence.
PyIndex(i, n) == IF i < 0 THEN Max(n + i, 0) ELSE Min(i, n)

\* seq[:i]
SliceTo(seq, i) == SubSeq(seq, 1, PyIndex(i, Len(seq)))

\* seq[i:]
SliceFrom(seq, i) == SubSeq(seq, PyIndex(i, Len(seq)) + 1, Len(seq))

\* dict(zip(keys, values)): pairs up to the shorter sequence, a later pair
\* overriding an earlier one with the same key.
DictZip(keys, values) ==
    LET n == Min(Len(keys), Len(values))
        last(k) == CHOOSE j \in 1..n :
                      /\ keys[j] = k
                      /\ \A h \in 1..n : keys[h] = k => h <= j
    IN  [k \in {keys[j] : j \in 1..n} |-> values[last(k)]]

\* as_kwargs[name] = value
DictSet(d, k, v) == [x \in DOMAIN d \cup {k} |-> IF x = k THEN v ELSE d[x]]

\* ------------------------------------------------------------- the objects

\* hasattr(obj, attr) is False.
NoAttr == [present |-> FALSE, hascode |-> FALSE]

\* An attribute implemented in C (a slot wrapper, a method-wrapper, a
\* built-in): present, without __code__.
SlotWrapper == [present |-> TRUE, hascode |-> FALSE]

\* __defaults__ of a function: None, or a tuple of values.
NoDefaults == [is_none |-> TRUE, items |-> <<>>]

DefaultsTuple(items) == [is_none |-> FALSE, items |-> items]

\* A Python-level function as an attribute value: it has __code__
\* (co_varnames, co_argcount) and __defaults__.
PyFunction(co_varnames, co_argcount, defaults) ==
    [present |-> TRUE, hascode |-> TRUE,
     co_varnames |-> co_varnames, co_argcount |-> co_argcount,
     defaults |-> defaults]

\* An object handed to get_signature: type(obj), its own __code__ and
\* __defaults__ (fn), and its __init__, __new__ and __call__ attributes.
PyObject(type, fn, init, new, call) ==
    [type |-> type, fn |-> fn, init |-> init, new |-> new, call |-> call,
     parameters |-> <<>>, required |-> <<>>, optional |-> <<>>]

\* _Signature(parameters, required, optional): a namedtuple, so an instance
\* of a tuple subclass: no __code__, not a class, no __call__.
Signature(parameters, required, optional) ==
    [type |-> "Signature", fn |-> NoAttr, init |-> SlotWrapper,
     new |-> SlotWrapper, call |-> NoAttr,
     parameters |-> parameters, required |-> required, optional |-> optional]

\* _Dependencies(as_args, as_kwargs, signature)
Dependencies(as_args, as_kwargs, signature) ==
    [as_args |-> as_args, as_kwargs |-> as_kwargs, signature |-> signature]

\* type(object) and, under Python 2, type(OldStyleClass).  Under Python 3 no
\* object has the type classobj, so the membership test is the same there.
CLASSY_TYPES == {"type", "classobj"}

\* What a call does: return a value, or raise an exception with an argument.
Return(value) == [kind |-> "return", value |-> value]

Raise(exc, arg) == [kind |-> "raise", exc |-> exc, arg |-> arg]

\* ---------------------------------------------------------- get_signature

\* hascode(obj): hasattr(obj, '__code__'), for an attribute value or for
\* the function part of an object.
hascode(fn) == fn.hascode

\* Lines 195-211, for the function the callable was resolved to.  Reading
\* __code__ of an object without one raises AttributeError.
Inspect(fn) ==
    IF ~hascode(fn)
    THEN Raise("AttributeError", PyObject("wrapper", fn, NoAttr, NoAttr, NoAttr))
    ELSE LET parameters == SliceTo(fn.co_varnames, fn.co_argcount)
             values     == fn.defaults
             nrequired  == IF values.is_none
                           THEN Len(parameters)
                           ELSE 0 - Len(values.items)
             optional   == IF values.is_none
                           THEN <<>>
                           ELSE DictZip(SliceFrom(parameters, nrequired),
                                        values.items)
             required   == SliceTo(parameters, nrequired)
         IN  Return(Signature(parameters, required, optional))

\* get_signature with its last branch gone wrong: an object that is no
\* callable at all is given the empty Signature instead of CantUseThis.
GetSignature_lenient(function) ==
    IF hascode(function.fn)
    THEN Inspect(function.fn)
    ELSE IF function.type \in CLASSY_TYPES
    THEN IF function.init.present /\ hascode(function.init)
         THEN Inspect(function.init)
         ELSE IF function.new.present /\ hascode(function.new)
         THEN Inspect(function.new)
         ELSE Return(Signature(<<>>, <<>>, <<>>))
    ELSE IF function.call.present
    THEN Inspect(function.call)
    ELSE Return(Signature(<<>>, <<>>, <<>>))

\* get_signature(function): resolve the callable to a function (lines
\* 181-193), then read its parameters and defaults.
GetSignature(function) ==
    IF hascode(function.fn)
    THEN Inspect(function.fn)
    ELSE IF function.type \in CLASSY_TYPES
    THEN IF function.init.present /\ hascode(function.init)
         THEN Inspect(function.init)
         ELSE IF function.new.present /\ hascode(function.new)
         THEN Inspect(function.new)
         ELSE Return(Signature(<<>>, <<>>, <<>>))
    ELSE IF function.call.present
    THEN Inspect(function.call)
    ELSE Raise("CantUseThis", function)

\* --------------------------------------------------- resolve_dependencies

\* The isinstance test never recognising a Signature: every argument is
\* handed to get_signature.
IsSignature_never(function_or_signature) == FALSE

\* isinstance(function_or_signature, _Signature)
IsSignature(function_or_signature) == function_or_signature.type = "Signature"

\* None as the sentinel, as with available.get(name): a None that was
\* supplied or declared is taken for "no value".
missing_none == "None"

\* missing = object(): a fresh object, identical to no value a caller has.
missing == "<missing>"

\* Lines 123-127: the value for one parameter name, or missing.
Lookup(name, avail, signature) ==
    IF name \in DOMAIN avail
    THEN avail[name]
    ELSE IF name \in DOMAIN signature.optional
    THEN signature.optional[name]
    ELSE missing

\* The locals of one call of resolve_dependencies once the signature is
\* known (lines 114-119); i is the position of the for loop.
NewFrame(signature) ==
    [signature |-> signature, as_args |-> <<>>, as_kwargs |-> <<>>, i |-> 1]

\* The loop body building as_args back to front.
LoopBody_prepend(fr, avail) ==
    LET name  == fr.signature.parameters[fr.i]
        value == Lookup(name, avail, fr.signature)
    IN  IF value # missing
        THEN [fr EXCEPT !.as_args = <<value>> \o @,
                        !.as_kwargs = DictSet(@, name, value),
                        !.i = @ + 1]
        ELSE [fr EXCEPT !.i = @ + 1]

\* The loop body giving up at the first parameter it cannot fill (break
\* where the code goes on to the next name).
LoopBody_break(fr, avail) ==
    LET name  == fr.signature.parameters[fr.i]
        value == Lookup(name, avail, fr.signature)
    IN  IF value # missing
        THEN [fr EXCEPT !.as_args = Append(@, value),
                        !.as_kwargs = DictSet(@, name, value),
                        !.i = @ + 1]
        ELSE [fr EXCEPT !.i = Len(fr.signature.parameters) + 1]

\* One iteration of the for loop (lines 122-130).
LoopBody(fr, avail) ==
    LET name  == fr.signature.parameters[fr.i]
        value == Lookup(name, avail, fr.signature)
    IN  IF value # missing
        THEN [fr EXCEPT !.as_args = Append(@, value),
                        !.as_kwargs = DictSet(@, name, value),
                        !.i = @ + 1]
        ELSE [fr EXCEPT !.i = @ + 1]

\* The loop is exhausted.
LoopDone(fr) == fr.i > Len(fr.signature.parameters)

\* Line 132.
ReturnValue(fr) == Return(Dependencies(fr.as_args, fr.as_kwargs, fr.signature))

\* Lines 116-119: the signature to resolve, or the exception get_signature
\* raised.
SignatureFor(function_or_signature) ==
    IF IsSignature(function_or_signature)
    THEN Return(function_or_signature)
    ELSE GetSignature(function_or_signature)

RECURSIVE RunLoop(_, _)
RunLoop(fr, avail) ==
    IF LoopDone(fr) THEN fr ELSE RunLoop(LoopBody(fr, avail), avail)

\* resolve_dependencies(function_or_signature, available) run from its
\* first line to its last with nothing else running.
ResolveDependencies(function_or_signature, avail) ==
    LET sig == SignatureFor(function_or_signature)
    IN  IF sig.kind = "raise"
        THEN sig
        ELSE ReturnValue(RunLoop(NewFrame(sig.value), avail))

\* ------------------------------------------------------------- the inputs

\* Parameter lists: distinct names, up to MaxParams of them.
ParamLists ==
    {p \in UNION {[1..n -> Names] : n \in 0..MaxParams} :
        \A i, j \in DOMAIN p : p[i] = p[j] => i = j}

\* __defaults__ of a function of n parameters: None (what def and lambda
\* leave when no parameter has a default), or a tuple of at most n values
\* (an empty one is what types.FunctionType(code, globals, name, ()) or an
\* assignment to __defaults__ leaves).
DefaultsFor(n) ==
    {NoDefaults} \cup
    {DefaultsTuple(items) : items \in UNION {[1..k -> Values] : k \in 0..n}}

\* The function object of: def f(<params, the last ones defaulted>) with the
\* local variables `locals` (co_varnames lists the parameters first).
DeclaredFunction(params, defaults, locals) ==
    PyFunction(params \o locals, Len(params), defaults)

\* Functions without local variables.
Functions ==
    UNION {{DeclaredFunction(p, d, <<>>) : d \in DefaultsFor(Len(p))} :
              p \in ParamLists}

\* Functions of at most one parameter.
SmallFunctions == {f \in Functions : f.co_argcount <= 1}

\* Functions with a local variable (tests.py, func with blah).
FunctionsWithLocals ==
    {DeclaredFunction(p, NoDefaults, <<"blah">>) : p \in ParamLists}

\* def __new__(cls, ...) of a class that also defines __init__.
SomeNew == DeclaredFunction(<<"baz">>, DefaultsTuple(<<"1">>), <<>>)

\* The callables get_signature is handed.
Callables ==
    \* functions, and bound and unbound methods: they expose __code__
    {PyObject("function", f, SlotWrapper, SlotWrapper, SlotWrapper) :
        f \in Functions \cup FunctionsWithLocals}
    \cup {PyObject("method", f, SlotWrapper, SlotWrapper, SlotWrapper) :
             f \in SmallFunctions}
    \* classes whose type is type: with __init__, with __new__, with both,
    \* with neither (object.__init__ and object.__new__ have no __code__)
    \cup {PyObject("type", NoAttr, f, SlotWrapper, SlotWrapper) : f \in Functions}
    \cup {PyObject("type", NoAttr, SlotWrapper, f, SlotWrapper) : f \in Functions}
    \cup {PyObject("type", NoAttr, f, SomeNew, SlotWrapper) : f \in SmallFunctions}
    \cup {PyObject("type", NoAttr, SlotWrapper, SlotWrapper, SlotWrapper)}
    \* Python 2 old-style classes: no inherited __init__ or __new__
    \cup {PyObject("classobj", NoAttr, f, NoAttr, NoAttr) : f \in SmallFunctions}
    \cup {PyObject("classobj", NoAttr, NoAttr, NoAttr, NoAttr)}
    \* classes with a metaclass (abc.ABC, enum.Enum, ...): type(cls) is the
    \* metaclass; cls.__call__ is type.__call__ bound to cls
    \cup {PyObject("metaclass", NoAttr, f, SlotWrapper, SlotWrapper) :
             f \in SmallFunctions}
    \* instances of a class that defines __call__
    \cup {PyObject("instance", NoAttr, SlotWrapper, SlotWrapper, f) :
             f \in Functions}
    \* built-in callables (len, functools.partial objects)
    \cup {PyObject("builtin", NoAttr, SlotWrapper, SlotWrapper, SlotWrapper)}
    \* object(): nothing to call
    \cup {PyObject("object", NoAttr, SlotWrapper, SlotWrapper, NoAttr)}

\* The availability mappings.
AvailableMaps == UNION {[S -> Values] : S \in SUBSET Names}

\* --------------------------------------------------------------- the state

Threads == 1..NThreads

VARIABLES
    function,   \* the callable the callers work on
    available,  \* the dict of available dependencies they share
    pc,         \* per caller: "idle", or the call of resolve_dependencies it is in
    frames,     \* the locals of the calls of resolve_dependencies
    returned    \* what the last call of each kind returned or raised

vars == <<function, available, pc, frames, returned>>

\* Nothing returned yet.
NoOutcome == [kind |-> "none"]

\* No call in progress: no locals.
NoFrame == NewFrame(Signature(<<>>, <<>>, <<>>))

\* as_args, as_kwargs and the loop position kept in one place for all
\* calls (module-level state instead of locals).
Frame_shared(t) == 1

\* Each call has locals of its own.
Frame(t) == t

InitCalls ==
    /\ pc = [t \in Threads |-> "idle"]
    /\ frames = [t \in Threads |-> NoFrame]
    /\ returned = [get_signature |-> NoOutcome, by_function |-> NoOutcome,
                   by_signature |-> NoOutcome]

Init ==
    /\ function \in Callables
    /\ available \in AvailableMaps
    /\ InitCalls

\* signature = get_signature(function), kept by the caller.
CallGetSignature(t) ==
    /\ pc[t] = "idle"
    /\ returned' = [returned EXCEPT !.get_signature = GetSignature(function)]
    /\ UNCHANGED <<function, available, pc, frames>>

\* Lines 114-119 of resolve_dependencies(x, available), called as `kind`.
Enter(t, x, kind) ==
    LET sig == SignatureFor(x)
    IN  IF sig.kind = "raise"
        THEN /\ returned' = [returned EXCEPT ![kind] = sig]
             /\ UNCHANGED <<function, available, pc, frames>>
        ELSE /\ frames' = [frames EXCEPT ![Frame(t)] = NewFrame(sig.value)]
             /\ pc' = [pc EXCEPT ![t] = kind]
             /\ UNCHANGED <<function, available, returned>>

\* resolve_dependencies(function, available)
CallWithFunction(t) ==
    /\ pc[t] = "idle"
    /\ Enter(t, function, "by_function")

\* resolve_dependencies(signature, available), with the signature a call
\* of get_signature returned.
CallWithSignature(t) ==
    /\ pc[t] = "idle"
    /\ returned.get_signature.kind = "return"
    /\ Enter(t, returned.get_signature.value, "by_signature")

\* One iteration of the for loop.
Iterate(t) ==
    /\ pc[t] # "idle"
    /\ ~LoopDone(frames[Frame(t)])
    /\ frames' = [frames EXCEPT ![Frame(t)] = LoopBody(@, available)]
    /\ UNCHANGED <<function, available, pc, returned>>

\* return _Dependencies(as_args, as_kwargs, signature)
ReturnDependencies(t) ==
    /\ pc[t] # "idle"
    /\ LoopDone(frames[Frame(t)])
    /\ returned' = [returned EXCEPT ![pc[t]] = ReturnValue(frames[Frame(t)])]
    /\ frames' = [frames EXCEPT ![Frame(t)] = NoFrame]
    /\ pc' = [pc EXCEPT ![t] = "idle"]
    /\ UNCHANGED <<function, available>>

Step(t) ==
    \/ CallGetSignature(t)
    \/ CallWithFunction(t)
    \/ CallWithSignature(t)
    \/ Iterate(t)
    \/ ReturnDependencies(t)

\* One caller.
Next == Step(1)

Spec == Init /\ [][Next]_vars

\* ------------------------------------------------------ concurrent callers

\* The callables of the concurrent runs: the functions of the parameters
\* foo and bar (tests.py: func(foo, bar), func(foo, bar=None), ...), an
\* instance with __call__, and object().
ConcCallables ==
    {PyObject("function", f, SlotWrapper, SlotWrapper, SlotWrapper) :
        f \in {g \in Functions : \A i \in 1..g.co_argcount :
                                     g.co_varnames[i] \in {"foo", "bar"}}}
    \cup {PyObject("instance", NoAttr, SlotWrapper, SlotWrapper,
                   DeclaredFunction(<<"bar">>, NoDefaults, <<>>))}
    \cup {PyObject("object", NoAttr, SlotWrapper, SlotWrapper, NoAttr)}

\* Their availability mappings.
ConcAvailable == UNION {[S -> Values] : S \in SUBSET {"foo", "bar"}}

InitConc ==
    /\ function \in ConcCallables
    /\ available \in ConcAvailable
    /\ InitCalls

\* Any caller takes the next step: the threads interleave freely.
NextConc == \E t \in Threads : Step(t)

SpecConc == InitConc /\ [][NextConc]_vars

\* ----------------------------------------------------------------- claims

Range(seq) == {seq[i] : i \in DOMAIN seq}

\* The two ways resolve_dependencies is called.
ResolveKinds == {"by_function", "by_signature"}

\* The last call of this kind returned a Resolution.
Returned(k) == returned[k].kind = "return"

\* The names of sig's parameters that have a value to resolve to.
IncludedNames(sig) ==
    {p \in Range(sig.parameters) :
        p \in DOMAIN available \/ p \in DOMAIN sig.optional}

\* The parameters of sig that are in S, in declaration order.
InOrder(sig, S) == SelectSeq(sig.parameters, LAMBDA p : p \in S)

\* C1: a Resolution includes a parameter iff its name is a key of
\* `available` or of signature.optional; as_kwargs has exactly those names
\* as keys, and as_args holds the same values, one per included parameter,
\* in the order of signature.parameters.
C1_IncludedIffResolvable ==
    \A k \in ResolveKinds :
        Returned(k) =>
            LET d     == returned[k].value
                inc   == IncludedNames(d.signature)
                order == InOrder(d.signature, inc)
            IN  /\ DOMAIN d.as_kwargs = inc
                /\ Len(d.as_args) = Len(order)
                /\ \A i \in 1..Len(order) : d.as_args[i] = d.as_kwargs[order[i]]

\* C1's case: a function of two parameters resolved against a mapping that
\* has the second, lacks the first and has a name that is no parameter.
C1_Witness ==
    /\ Returned("by_function")
    /\ LET d == returned.by_function.value
       IN  /\ Len(d.signature.parameters) = 2
           /\ d.signature.optional = <<>>
           /\ d.signature.parameters[1] \notin DOMAIN available
           /\ d.signature.parameters[2] \in DOMAIN available
           /\ DOMAIN available \ Range(d.signature.parameters) # {}
           /\ Len(d.as_args) = 1

\* C2: a parameter whose name is a key of `available` resolves to
\* available[name], whatever the value (None too) and whatever its default;
\* a default is used only when the name is absent, and a default of None is
\* a resolved value.
C2_PresencePrecedence ==
    \A k \in ResolveKinds :
        Returned(k) =>
            LET d   == returned[k].value
                sig == d.signature
                \* the position of parameter i among the resolved ones
                pos(i) == Cardinality({j \in 1..i :
                              sig.parameters[j] \in IncludedNames(sig)})
            IN  \A i \in 1..Len(sig.parameters) :
                    LET p == sig.parameters[i]
                        v == IF p \in DOMAIN available
                             THEN available[p]
                             ELSE sig.optional[p]
                    IN  p \in IncludedNames(sig) =>
                            /\ p \in DOMAIN d.as_kwargs
                            /\ d.as_kwargs[p] = v
                            /\ pos(i) <= Len(d.as_args)
                            /\ d.as_args[pos(i)] = v

\* C2's case: func(foo=1, bar=None) resolved against {foo: None}: the
\* explicit None wins over the default 1, and the default None is used.
C2_Witness ==
    /\ Returned("by_function")
    /\ LET d   == returned.by_function.value
           sig == d.signature
       IN  /\ Len(sig.parameters) = 2
           /\ DOMAIN sig.optional = Range(sig.parameters)
           /\ sig.optional[sig.parameters[1]] = "1"
           /\ sig.optional[sig.parameters[2]] = "None"
           /\ sig.parameters[1] \in DOMAIN available
           /\ available[sig.parameters[1]] = "None"
           /\ sig.parameters[2] \notin DOMAIN available
           /\ d.as_args = <<"None", "None">>

\* The number of defaults a function declares.
NDefaults(fn) == IF fn.defaults.is_none THEN 0 ELSE Len(fn.defaults.items)

\* C3: the Signature of a function is the partition of its parameter list:
\* parameters are the declared names in order, required the leading ones
\* without a default, optional maps the K-th parameter of the trailing
\* defaulted block to the K-th default; required and optional's keys are
\* disjoint and make up parameters; without defaults optional is empty and
\* required = parameters.
C3_SignatureIsPartition ==
    (hascode(function.fn) /\ returned.get_signature # NoOutcome) =>
        /\ returned.get_signature.kind = "return"
        /\ LET sig    == returned.get_signature.value
               fn     == function.fn
               params == SubSeq(fn.co_varnames, 1, fn.co_argcount)
               nd     == NDefaults(fn)
               nreq   == Len(params) - nd
           IN  /\ sig.parameters = params
               /\ sig.required = SubSeq(params, 1, nreq)
               /\ DOMAIN sig.optional = {params[i] : i \in (nreq + 1)..Len(params)}
               /\ \A j \in 1..nd : sig.optional[params[nreq + j]] = fn.defaults.items[j]
               /\ Range(sig.required) \cap DOMAIN sig.optional = {}
               /\ nd = 0 => (sig.optional = <<>> /\ sig.required = sig.parameters)

\* C4: when extraction succeeds (or a Signature is passed),
\* resolve_dependencies raises for no availability mapping; a required
\* parameter absent from `available` is left out of as_args and as_kwargs,
\* and the other parameters are still resolved.
C4_Permissive ==
    \A k \in ResolveKinds :
        (returned[k] # NoOutcome /\ returned.get_signature.kind = "return") =>
            /\ Returned(k)
            /\ LET d       == returned[k].value
                   sig     == d.signature
                   skipped == {p \in Range(sig.required) : p \notin DOMAIN available}
               IN  /\ skipped \cap DOMAIN d.as_kwargs = {}
                   /\ \A p \in Range(sig.parameters) :
                          (p \in DOMAIN available \/ p \in DOMAIN sig.optional)
                              => p \in DOMAIN d.as_kwargs
                   /\ Len(d.as_args) = Cardinality(DOMAIN d.as_kwargs)

\* C4's case: func(foo, bar) against a mapping with bar and without foo:
\* foo is skipped, bar is resolved.
C4_Witness ==
    /\ returned.get_signature.kind = "return"
    /\ Returned("by_signature")
    /\ LET d == returned.by_signature.value
       IN  /\ Len(d.signature.required) = 2
           /\ d.signature.required[1] \notin DOMAIN available
           /\ d.signature.required[2] \in DOMAIN available
           /\ DOMAIN d.as_kwargs = {d.signature.required[2]}

\* Neither a function or method, nor a class, nor an object with __call__.
Unsupported(obj) ==
    /\ ~hascode(obj.fn)
    /\ obj.type \notin {"type", "classobj", "metaclass"}
    /\ ~obj.call.present

\* C5: for an input that is no function or method, no class and has no
\* __call__, get_signature raises CantUseThis with that input as its
\* argument, and resolve_dependencies raises the same error and returns no
\* Resolution.
C5_UnsupportedRaisesCantUseThis ==
    Unsupported(function) =>
        /\ returned.get_signature # NoOutcome =>
               returned.get_signature = Raise("CantUseThis", function)
        /\ returned.by_function # NoOutcome =>
               returned.by_function = Raise("CantUseThis", function)
        /\ \A t \in Threads : pc[t] = "idle"

\* C5's case: object() was handed to both functions.
C5_Witness ==
    /\ Unsupported(function)
    /\ returned.get_signature.kind = "raise"
    /\ returned.by_function.kind = "raise"

\* C6: get_signature either returns a Signature or raises CantUseThis
\* carrying its input, and never another error.
C6_CantUseThisIsTheOnlyError ==
    returned.get_signature # NoOutcome =>
        \/ returned.get_signature.kind = "return"
        \/ returned.get_signature = Raise("CantUseThis", function)

\* A class, whatever its metaclass.
IsClass(obj) == obj.type \in {"type", "classobj", "metaclass"}

\* Defined in Python: present and with __code__.
Explicit(attr) == attr.present /\ hascode(attr)

\* C7: for a class that exposes no parameter list of its own get_signature
\* uses __init__'s parameter list if it is defined, else __new__'s if it is
\* defined, else returns the empty Signature; the class rule comes before
\* the __call__ rule, and a class without either constructor resolves to
\* empty as_args and as_kwargs.
C7_ClassResolutionOrder ==
    (IsClass(function) /\ ~hascode(function.fn)) =>
        /\ returned.get_signature # NoOutcome =>
               returned.get_signature =
                   IF Explicit(function.init) THEN Inspect(function.init)
                   ELSE IF Explicit(function.new) THEN Inspect(function.new)
                   ELSE Return(Signature(<<>>, <<>>, <<>>))
        /\ (returned.by_function # NoOutcome /\ ~Explicit(function.init)
                /\ ~Explicit(function.new)) =>
               /\ Returned("by_function")
               /\ returned.by_function.value.as_args = <<>>
               /\ returned.by_function.value.as_kwargs = <<>>

\* C8: resolving the Signature get_signature returned equals resolving the
\* callable itself, and the Resolution of a Signature carries exactly that
\* Signature.
C8_CachedSignatureEquivalent ==
    returned.by_signature # NoOutcome =>
        /\ Returned("by_signature")
        /\ returned.by_signature.value.signature = returned.get_signature.value
        /\ returned.by_function # NoOutcome =>
               returned.by_function = returned.by_signature

\* C8's case: the callable was resolved both ways, with something to pass.
C8_Witness ==
    /\ Returned("by_function")
    /\ Returned("by_signature")
    /\ Len(returned.by_signature.value.as_args) = 2

\* What calling the target with *as_args binds: the i-th value to the i-th
\* parameter.
PositionalBinding(d) ==
    [p \in {d.signature.parameters[i] : i \in 1..Len(d.as_args)} |->
        d.as_args[CHOOSE i \in 1..Len(d.as_args) : d.signature.parameters[i] = p]]

\* C9: calling the target with *as_args binds every parameter to the same
\* value as calling it with **as_kwargs.
C9_ArgsEquivalentToKwargs ==
    \A k \in ResolveKinds :
        Returned(k) => PositionalBinding(returned[k].value) = returned[k].value.as_kwargs

\* Each call returned what it returns when it runs alone on its inputs.
PureResults ==
    /\ returned.get_signature # NoOutcome =>
           returned.get_signature = GetSignature(function)
    /\ returned.by_function # NoOutcome =>
           returned.by_function = ResolveDependencies(function, available)
    /\ returned.by_signature # NoOutcome =>
           /\ returned.get_signature.kind = "return"
           /\ returned.by_signature =
                  ResolveDependencies(returned.get_signature.value, available)

\* C10: in every interleaving of get_signature and resolve_dependencies
\* calls, each call returns what it returns alone on the same inputs, a
\* repeated extraction returns an equal Signature, and no call changes the
\* callable, the availability mapping or the Signature it was given.
C10_PureUnderInterleaving ==
    /\ []PureResults
    /\ [][/\ function' = function
          /\ available' = available
          /\ returned.get_signature.kind = "return" =>
                 returned'.get_signature = returned.get_signature]_vars

\* C10's case: two calls of resolve_dependencies are inside their loops at
\* once, one on the callable and one on the shared Signature, both past
\* their first parameter, after an earlier call returned a Resolution.
C10_Witness ==
    /\ pc[1] = "by_function"
    /\ pc[2] = "by_signature"
    /\ frames[1].i = 2
    /\ frames[2].i = 2
    /\ Len(frames[1].as_args) = 1
    /\ Returned("by_function")
    /\ Len(returned.by_function.value.as_args) = 2

====
